---- MODULE Spec2Model ----
(***************************************************************************)
(* Model of the dual-dial sentence editor: the Frame page component (its   *)
(* React state, refs and effects), the relay socket it keeps to the        *)
(* server, and the ArduinoHandler serial bridge that feeds the relay.      *)
(*                                                                         *)
(* Angles are kept in tenths of a degree so that the hardware gain of 3.6  *)
(* degrees per detent is the integer 36 and the 60 degree step is 600.     *)
(* Arithmetic is exact: the rounding of IEEE doubles is not modelled.      *)
(*                                                                         *)
(* Every event handler of the component runs to completion and is followed *)
(* by React's render/effect cycle, which is part of the same step: Render  *)
(* re-runs the effects whose dependencies changed until no state changes.  *)
(***************************************************************************)
EXTENDS Integers, Sequences, FiniteSets, TLC

VARIABLES
    frame,        \* the Frame component: useState values, refs, pending provider calls
    socket,       \* the component's current relay WebSocket (client end)
    retryTimers,  \* number of pending setTimeout(connectWebSocket, 3000)
    relayConn,    \* the relay's end of that connection: "none", "open" or "closed"
    inbox,        \* messages the relay sent on the connection, not yet handled
    currentData,  \* ArduinoHandler.currentData
    bridge,       \* ArduinoHandler: isConnected, port, parser, its serial handles and
                  \* the calls of connectToArduino that are waiting at an await
    device,       \* the Arduino is plugged in (its port is listed and can be opened)
    hist,         \* history of the run, used only to state properties
    budget        \* events the run may still take (null: as many as it likes)

vars == <<frame, socket, retryTimers, relayConn, inbox, currentData, bridge, device,
          hist, budget>>

-----------------------------------------------------------------------------
(* Bounds of the model *)

InitLen == 3        \* number of words of INITIAL_SENTENCE the page starts with
MaxGrowth == 1      \* the sentence grows by at most this many words
MaxSteps == 3       \* mouse contributions stay within MaxSteps * 60 degrees
MaxPending == 2     \* provider calls in flight at once
MaxVariations == 2  \* longest list the provider returns
MaxInbox == 1       \* relay messages in flight to the viewer
MaxEvents == 10     \* length of the runs in which both dials are dragged
MaxRun == 6         \* length of the runs in which every event can happen
MaxHandles == 2     \* serial handles the bridge has made and not yet let go of
MaxAttempts == 2    \* calls of connectToArduino in progress at once
MaxBridge == 10     \* length of the runs that start at the bridge's construction
MaxWords == 8       \* longest sentence a page is mounted with to show its window
MaxView == 3        \* length of the runs that start from such a page

-----------------------------------------------------------------------------
(* Program constants *)

threshold == 600     \* const threshold = 60 (degrees), in tenths
DetentGain == 36     \* encoder * 3.6 (degrees), in tenths
JumpLimit == 100     \* Math.abs(delta) > 100
HalfTurn == 1800     \* 180 degrees
FullTurn == 3600     \* 360 degrees
maxVisible == 6      \* const maxVisible = 6
null == -1           \* useState<number | null>(null)
NaN == -999999       \* the number NaN (x + NaN, undefined * 3.6)
missing == -888888   \* the value of a counter that message.data does not have

undefined == "<undefined>"   \* words[i] for i out of range
MASK == "[MASK]"
PREDICT == "[PREDICT]"

FULL_SENTENCE ==
    <<"We", "remain", "lingering", "this", "evening", "near", "the",
      "glassframe", "since", "the", "lunar", "lantern", "carries", "an",
      "excess", "of", "tender", "radiance">>

INITIAL_SENTENCE == SubSeq(FULL_SENTENCE, 1, InitLen)

-----------------------------------------------------------------------------
(* Inputs *)

\* getAngle results of the pointer events, in (-180, 180] degrees
PointerAngles == {0, 300, 600}

\* getAngle results of the pointer events of a sweep across the sentence
SweepAngles == {0, 600, HalfTurn}

\* counter values the device reports
Counters == {0, JumpLimit, JumpLimit + 1}

\* lines "E1:<integer>,E2:<integer>" as the Arduino prints them
GoodLines ==
    {<<"E1:", ToString(e1), ",E2:", ToString(e2)>> : e1 \in Counters, e2 \in Counters}
      \cup {<<"E1:", "-", ToString(JumpLimit), ",E2:", "0">>}

\* lines that are not "E1:<integer>,E2:<integer>"
BadLines ==
    {<<>>,
     <<"ready">>,
     <<"E1:", "100">>,
     <<"E1:", "100", ",E2:", "-">>,
     <<"E1:", "x", ",E2:", "0">>,
     <<"E1:", "100", ",E2:", "101", ".", "100">>,
     <<"E1:", "100", ",E2:", "0", "E1:", "100", ",E2:", "101">>}

ProviderWords == <<"I", "they", "she">>

\* what a call to /api/word-variations can come back with
ProviderResponses ==
    {[kind |-> "error"], [kind |-> "absent"]}
      \cup {[kind |-> "list", variations |-> SubSeq(ProviderWords, 1, k)] :
               k \in 0..MaxVariations}

-----------------------------------------------------------------------------
(* Helpers *)

Abs(x) == IF x < 0 THEN -x ELSE x

Max(a, b) == IF a > b THEN a ELSE b

Min(a, b) == IF a < b THEN a ELSE b

\* words[i], zero-based as in the code
At(ws, i) == IF i >= 0 /\ i < Len(ws) THEN ws[i + 1] ELSE undefined

\* newWords[i] = v on a copy of ws (writing at ws.length appends)
SetAt(ws, i, v) ==
    IF i < Len(ws) THEN [ws EXCEPT ![i + 1] = v] ELSE Append(ws, v)

\* words.join(' ')
RECURSIVE join(_)
join(ws) ==
    IF ws = <<>> THEN ""
    ELSE IF Len(ws) = 1 THEN ws[1]
    ELSE ws[1] \o " " \o join(Tail(ws))

\* x + y of two numbers
Plus(x, y) == IF x = NaN \/ y = NaN THEN NaN ELSE x + y

\* x - y of two counters, either of which may be undefined
Minus(x, y) == IF x = missing \/ y = missing THEN NaN ELSE x - y

\* delta * 3.6 and encoder * 3.6
Degrees(n) == IF n = NaN \/ n = missing THEN NaN ELSE n * DetentGain

rotation(f) == Plus(f.mouseRotation, f.encoderRotation)

rightRotation(f) == Plus(f.rightMouseRotation, f.rightEncoderRotation)

\* the useState values of the component (a render happens when one changes)
StateOf(f) ==
    <<f.words, f.mouseRotation, f.encoderRotation, f.rightMouseRotation,
      f.rightEncoderRotation, f.selectedWordIndex, f.currentVariations,
      f.variationsFetchedForIndex, f.isPredicting, f.arduinoConnected,
      f.isDragging, f.isRightDragging>>

-----------------------------------------------------------------------------
(* Effects of the Frame component.  r is the state of the render whose     *)
(* closure the effect runs in, a is the state being accumulated.           *)

\* useEffect(..., [selectedWordIndex]): reset the variants
ResetVariationsEffect(r, a) ==
    [a EXCEPT !.currentVariations = <<At(r.words, r.selectedWordIndex)>>,
              !.variationsFetchedForIndex = null]

\* the request of the variant fetch, with what its callbacks close over
VariantFetch(r) ==
    [kind |-> "variant",
     word |-> At(r.words, r.selectedWordIndex),
     context |-> join(r.words),
     position |-> r.selectedWordIndex]

\* const variationIdx = Math.floor(Math.abs(rotation) / threshold) % length
variationIdx(r) ==
    IF rotation(r) = NaN THEN NaN
    ELSE (Abs(rotation(r)) \div threshold) % Len(r.currentVariations)

\* useEffect(..., [rotation]): fetch the variants or cycle through them
LeftDialEffect(r, a) ==
    IF r.variationsFetchedForIndex # r.selectedWordIndex
    THEN [a EXCEPT !.pending = Append(@, VariantFetch(r))]
    ELSE IF Len(r.currentVariations) = 0 THEN a
    ELSE IF variationIdx(r) = NaN THEN a
    ELSE LET selectedVariation == r.currentVariations[variationIdx(r) + 1]
         IN  IF At(a.words, r.selectedWordIndex) = selectedVariation THEN a
             ELSE [a EXCEPT !.words =
                               SetAt(@, r.selectedWordIndex, selectedVariation)]

\* NewIndex without the floor at 0
NewIndexNoFloor(prev, steps, direction, length) ==
    LET newIndex == prev + (steps * direction)
    IN  IF newIndex >= length THEN length ELSE newIndex

\* NewIndex that stops at the last word
NewIndexLastWord(prev, steps, direction, length) ==
    LET newIndex == prev + (steps * direction)
    IN  IF newIndex < 0 THEN 0
        ELSE IF newIndex >= length THEN length - 1
        ELSE newIndex

\* the updater passed to setSelectedWordIndex
NewIndex(prev, steps, direction, length) ==
    LET newIndex == prev + (steps * direction)
    IN  IF newIndex < 0 THEN 0
        ELSE IF newIndex >= length THEN length
        ELSE newIndex

\* RightDialEffect consuming the whole rotation change, remainder included
RightDialEffectNoRemainder(r, a) ==
    LET rotationChange == rightRotation(r) - a.lastRightRotationRef
        steps == Abs(rotationChange) \div threshold
        direction == IF rotationChange > 0 THEN 1 ELSE -1
    IN  IF steps > 0
        THEN [a EXCEPT !.selectedWordIndex =
                          NewIndex(@, steps, direction, Len(r.words)),
                       !.lastRightRotationRef = rightRotation(r)]
        ELSE a

\* RightDialEffect consuming only the angle of the steps the cursor made
RightDialEffectClamped(r, a) ==
    LET rotationChange == Plus(rightRotation(r), -a.lastRightRotationRef)
        steps == IF rotationChange = NaN THEN NaN
                 ELSE Abs(rotationChange) \div threshold
        direction == IF rotationChange > 0 THEN 1 ELSE -1
        newIndex == NewIndex(a.selectedWordIndex, steps, direction, Len(r.words))
    IN  IF steps # NaN /\ steps > 0
        THEN [a EXCEPT !.selectedWordIndex = newIndex,
                       !.lastRightRotationRef =
                          @ + (newIndex - a.selectedWordIndex) * threshold]
        ELSE a

\* useEffect(..., [rightRotation, words.length]): move the cursor
RightDialEffect(r, a) ==
    LET rotationChange == Plus(rightRotation(r), -a.lastRightRotationRef)
        steps == IF rotationChange = NaN THEN NaN
                 ELSE Abs(rotationChange) \div threshold
        direction == IF rotationChange > 0 THEN 1 ELSE -1
    IN  IF steps # NaN /\ steps > 0
        THEN [a EXCEPT !.selectedWordIndex =
                          NewIndex(@, steps, direction, Len(r.words)),
                       !.lastRightRotationRef = @ + steps * threshold * direction]
        ELSE a

\* PredictFetch without the mask token
PredictFetchNoMask(r) ==
    [kind |-> "predict",
     word |-> PREDICT,
     context |-> join(r.words),
     position |-> Len(r.words)]

\* the request of the predict-next-word call
PredictFetch(r) ==
    [kind |-> "predict",
     word |-> PREDICT,
     context |-> join(r.words) \o " " \o MASK,
     position |-> Len(r.words)]

\* ExtensionEffect that does not test isPredicting
ExtensionEffectUnguarded(r, a) ==
    IF r.selectedWordIndex >= Len(r.words)
    THEN [a EXCEPT !.isPredicting = TRUE,
                   !.pending = Append(@, PredictFetch(r))]
    ELSE a

\* useEffect(..., [selectedWordIndex, words, isPredicting]): extend the sentence
ExtensionEffect(r, a) ==
    IF r.selectedWordIndex >= Len(r.words) /\ ~r.isPredicting
    THEN [a EXCEPT !.isPredicting = TRUE,
                   !.pending = Append(@, PredictFetch(r))]
    ELSE a

\* one commit: the effects whose dependencies differ from the previous render p
Commit(p, r) ==
    LET a1 == IF r.selectedWordIndex # p.selectedWordIndex
              THEN ResetVariationsEffect(r, r) ELSE r
        a2 == IF rotation(r) # rotation(p)
              THEN LeftDialEffect(r, a1) ELSE a1
        a3 == IF rightRotation(r) # rightRotation(p) \/ Len(r.words) # Len(p.words)
              THEN RightDialEffect(r, a2) ELSE a2
        a4 == IF \/ r.selectedWordIndex # p.selectedWordIndex
                 \/ r.words # p.words
                 \/ r.isPredicting # p.isPredicting
              THEN ExtensionEffect(r, a3) ELSE a3
    IN  a4

\* render after render until the effects change no state
RECURSIVE Render(_, _)
Render(p, r) ==
    LET a == Commit(p, r)
    IN  IF StateOf(a) = StateOf(r) THEN a ELSE Render(r, a)

\* the first render: every effect runs once
Mount(r) ==
    LET a == ExtensionEffect(r,
               RightDialEffect(r,
                 LeftDialEffect(r,
                   ResetVariationsEffect(r, r))))
    IN  IF StateOf(a) = StateOf(r) THEN a ELSE Render(r, a)

\* the useState / useRef initial values
InitialFrame ==
    [words |-> INITIAL_SENTENCE,
     mouseRotation |-> 0, encoderRotation |-> 0,
     rightMouseRotation |-> 0, rightEncoderRotation |-> 0,
     isDragging |-> FALSE, isRightDragging |-> FALSE,
     lastAngleRef |-> 0, lastRightAngleRef |-> 0,
     selectedWordIndex |-> 0,
     lastRightRotationRef |-> 0,
     arduinoConnected |-> FALSE,
     lastEncoder1Ref |-> 0, lastEncoder2Ref |-> 0,
     currentVariations |-> <<>>,
     variationsFetchedForIndex |-> null,
     isPredicting |-> FALSE,
     pending |-> <<>>,
     mounted |-> TRUE]

\* the window without the move of its start when it runs into the end
WindowNoBackfill(f) ==
    LET half == maxVisible \div 2
        start == Max(0, f.selectedWordIndex - half)
    IN  [start |-> start, end |-> Min(Len(f.words), start + maxVisible)]

\* the words the sentence display renders: words.slice(start, end)
Window(f) ==
    LET half == maxVisible \div 2
        start == Max(0, f.selectedWordIndex - half)
        end == Min(Len(f.words), start + maxVisible)
    IN  [start |-> IF end - start < maxVisible THEN Max(0, end - maxVisible)
                   ELSE start,
         end |-> end]

-----------------------------------------------------------------------------
(* Mouse handlers.  angle is getAngle(center, pointer) of the event.       *)

\* let deltaAngle = currentAngle - lastAngleRef.current, normalised
deltaAngle(currentAngle, lastAngle) ==
    LET d == currentAngle - lastAngle
        d1 == IF d > HalfTurn THEN d - FullTurn ELSE d
    IN  IF d1 < -HalfTurn THEN d1 + FullTurn ELSE d1

handleMouseDown(f, angle) ==
    [f EXCEPT !.isDragging = TRUE, !.lastAngleRef = angle]

\* handleMouseMove adding the drag to the encoder contribution
handleMouseMoveIntoEncoder(f, angle) ==
    IF f.isDragging
    THEN [f EXCEPT !.encoderRotation = Plus(@, deltaAngle(angle, f.lastAngleRef)),
                   !.lastAngleRef = angle]
    ELSE f

handleMouseMove(f, angle) ==
    IF f.isDragging
    THEN [f EXCEPT !.mouseRotation = @ + deltaAngle(angle, f.lastAngleRef),
                   !.lastAngleRef = angle]
    ELSE f

handleMouseUp(f) == [f EXCEPT !.isDragging = FALSE]

handleRightMouseDown(f, angle) ==
    [f EXCEPT !.isRightDragging = TRUE, !.lastRightAngleRef = angle]

handleRightMouseMove(f, angle) ==
    IF f.isRightDragging
    THEN [f EXCEPT !.rightMouseRotation =
                      @ + deltaAngle(angle, f.lastRightAngleRef),
                   !.lastRightAngleRef = angle]
    ELSE f

handleRightMouseUp(f) == [f EXCEPT !.isRightDragging = FALSE]

-----------------------------------------------------------------------------
(* Completions of the provider calls.  q is the request (and what its      *)
(* callbacks closed over), resp what the call came back with.              *)

\* data.variations && data.variations.length > 0
HasVariations(resp) == resp.kind = "list" /\ Len(resp.variations) > 0

\* VariantResolved that installs the provider's list without the original word
VariantResolvedNoOriginal(f, q, resp) ==
    IF resp.kind = "error" THEN f
    ELSE [f EXCEPT !.currentVariations =
                      IF HasVariations(resp) THEN resp.variations ELSE @,
                   !.variationsFetchedForIndex = q.position]

\* .then / .catch of the variant fetch of the left-dial effect
VariantResolved(f, q, resp) ==
    IF resp.kind = "error" THEN f
    ELSE [f EXCEPT !.currentVariations =
                      IF HasVariations(resp)
                      THEN <<q.word>> \o resp.variations ELSE @,
                   !.variationsFetchedForIndex = q.position]

\* PredictResolved that does not record the position the list was fetched for
PredictResolvedNoMark(f, q, resp) ==
    IF resp.kind = "error"
    THEN [f EXCEPT !.isPredicting = FALSE,
                   !.selectedWordIndex = q.position - 1]
    ELSE IF HasVariations(resp)
    THEN [f EXCEPT !.words = Append(@, resp.variations[1]),
                   !.currentVariations = resp.variations,
                   !.isPredicting = FALSE]
    ELSE [f EXCEPT !.isPredicting = FALSE]

\* .then / .catch of the predict call of the extension effect
PredictResolved(f, q, resp) ==
    IF resp.kind = "error"
    THEN [f EXCEPT !.isPredicting = FALSE,
                   !.selectedWordIndex = q.position - 1]
    ELSE IF HasVariations(resp)
    THEN [f EXCEPT !.words = Append(@, resp.variations[1]),
                   !.currentVariations = resp.variations,
                   !.variationsFetchedForIndex = q.position,
                   !.isPredicting = FALSE]
    ELSE [f EXCEPT !.isPredicting = FALSE]

Resolved(f, q, resp) ==
    IF q.kind = "variant" THEN VariantResolved(f, q, resp)
    ELSE PredictResolved(f, q, resp)

\* s without its i-th element
RemoveAt(s, i) == SubSeq(s, 1, i - 1) \o SubSeq(s, i + 1, Len(s))

-----------------------------------------------------------------------------
(* ws.onmessage.  needsSync belongs to the socket the handler was made     *)
(* for; the result is the new component state and the new flag.            *)

Encoder(e1, e2) ==
    [type |-> "encoder", data |-> [encoder1 |-> e1, encoder2 |-> e2]]

\* Encoder1Tick that leaves the baseline where it was
Encoder1TickStaleRef(f, encoder1) ==
    IF encoder1 # f.lastEncoder1Ref
    THEN LET delta == encoder1 - f.lastEncoder1Ref
         IN  [f EXCEPT !.encoderRotation =
                          IF Abs(delta) > JumpLimit
                          THEN encoder1 * DetentGain
                          ELSE @ + (delta * DetentGain)]
    ELSE f

\* Encoder1Tick that sets the contribution to the delta instead of adding it
Encoder1TickNoSum(f, encoder1) ==
    IF encoder1 # f.lastEncoder1Ref
    THEN LET delta == encoder1 - f.lastEncoder1Ref
         IN  [f EXCEPT !.encoderRotation =
                          IF Abs(delta) > JumpLimit
                          THEN encoder1 * DetentGain
                          ELSE delta * DetentGain,
                       !.lastEncoder1Ref = encoder1]
    ELSE f

\* the encoder1 branch: lastEncoder1Ref and encoderRotation
Encoder1Tick(f, encoder1) ==
    IF encoder1 # f.lastEncoder1Ref
    THEN LET delta == Minus(encoder1, f.lastEncoder1Ref)
         IN  [f EXCEPT !.encoderRotation =
                          IF delta # NaN /\ Abs(delta) > JumpLimit
                          THEN Degrees(encoder1)
                          ELSE Plus(@, Degrees(delta)),
                       !.lastEncoder1Ref = encoder1]
    ELSE f

\* Encoder2Tick that records the baseline of the incremental branch only
Encoder2TickStaleRef(f, encoder2) ==
    IF encoder2 # f.lastEncoder2Ref
    THEN LET delta == Minus(encoder2, f.lastEncoder2Ref)
         IN  IF delta # NaN /\ Abs(delta) > JumpLimit
             THEN [f EXCEPT !.rightEncoderRotation = Degrees(encoder2)]
             ELSE [f EXCEPT !.rightEncoderRotation = Plus(@, Degrees(delta)),
                            !.lastEncoder2Ref = encoder2]
    ELSE f

\* Encoder2Tick that turns the left dial along with the right one
Encoder2TickBothDials(f, encoder2) ==
    IF encoder2 # f.lastEncoder2Ref
    THEN LET delta == Minus(encoder2, f.lastEncoder2Ref)
         IN  [f EXCEPT !.rightEncoderRotation =
                          IF delta # NaN /\ Abs(delta) > JumpLimit
                          THEN Degrees(encoder2)
                          ELSE Plus(@, Degrees(delta)),
                       !.encoderRotation = Plus(@, Degrees(delta)),
                       !.lastEncoder2Ref = encoder2]
    ELSE f

\* the encoder2 branch: lastEncoder2Ref and rightEncoderRotation
Encoder2Tick(f, encoder2) ==
    IF encoder2 # f.lastEncoder2Ref
    THEN LET delta == Minus(encoder2, f.lastEncoder2Ref)
         IN  [f EXCEPT !.rightEncoderRotation =
                          IF delta # NaN /\ Abs(delta) > JumpLimit
                          THEN Degrees(encoder2)
                          ELSE Plus(@, Degrees(delta)),
                       !.lastEncoder2Ref = encoder2]
    ELSE f

\* SyncEncoders that forgets the baseline of the right dial
SyncEncodersStaleRef(f, encoder1, encoder2) ==
    [f EXCEPT !.encoderRotation = encoder1 * DetentGain,
              !.rightEncoderRotation = encoder2 * DetentGain,
              !.lastEncoder1Ref = encoder1]

\* if (needsSync) { ... return; }
SyncEncoders(f, encoder1, encoder2) ==
    [f EXCEPT !.encoderRotation = Degrees(encoder1),
              !.rightEncoderRotation = Degrees(encoder2),
              !.lastEncoder1Ref = encoder1,
              !.lastEncoder2Ref = encoder2]

\* onmessage without the resync branch
onmessageNoSync(f, needsSync, message) ==
    IF message.type = "encoder"
    THEN [frame |-> Encoder2Tick(Encoder1Tick(f, message.data.encoder1),
                                 message.data.encoder2),
          needsSync |-> needsSync]
    ELSE [frame |-> f, needsSync |-> needsSync]

onmessage(f, needsSync, message) ==
    IF "type" \notin DOMAIN message
    THEN [frame |-> f, needsSync |-> needsSync]
    ELSE IF message.type = "encoder" /\ "data" \in DOMAIN message
    THEN IF needsSync
         THEN [frame |-> SyncEncoders(f, message.data.encoder1,
                                         message.data.encoder2),
               needsSync |-> FALSE]
         ELSE [frame |-> Encoder2Tick(Encoder1Tick(f, message.data.encoder1),
                                      message.data.encoder2),
               needsSync |-> needsSync]
    ELSE [frame |-> f, needsSync |-> needsSync]

\* event.data that is not JSON
NotJson == [text |-> "E1:1,E2:1"]

\* messages that are not { type: "encoder", data: { encoder1, encoder2 } }
Malformed ==
    {NotJson,
     [type |-> "status"],
     [type |-> "encoder"],
     Encoder(missing, 1),
     Encoder(1, missing)}

-----------------------------------------------------------------------------
(* History.  last names the step just taken; the other fields record what  *)
(* the relay delivered and how the right dial was dragged, independently   *)
(* of what the component made of it.                                       *)

none == [op |-> "none"]

InitialHist ==
    [last |-> none,
     mounted |-> InitLen,    \* length of the sentence the page was mounted with
     reconnected |-> FALSE,  \* the page has opened a second socket
     handled |-> 0,          \* encoder messages handled on the current socket (2 = two or more)
     baselineFresh |-> FALSE, \* the counter baselines were written on the current socket
     prev |-> [encoder1 |-> 0, encoder2 |-> 0],  \* data of the encoder message handled last
     prevSync |-> FALSE,     \* ... and whether it was handled as a resync
     sum1 |-> 0, sum2 |-> 0, \* sum of the deltas of the ticks handled (kept while ticksOnly)
     ticksOnly |-> TRUE,     \* so far only ticks of at most JumpLimit detents changed the dials
     navStart |-> 0,         \* cursor when the right dial last stood at 0 with nothing consumed
     navClean |-> TRUE,      \* since then the cursor met neither the floor nor the end
     navUp |-> FALSE,        \* since then the right dial was turned forward
     navDown |-> FALSE,      \* since then the right dial was turned backward
     arrived |-> At(INITIAL_SENTENCE, 0),  \* the word the cursor found when it last moved,
                                           \* or the word an extension appended at it
     origin |-> null,        \* position of the request whose answer is in currentVariations
     returned |-> FALSE,     \* the cursor came back to the end while the predict call
                             \* issued at its earlier visit was still in flight
     untouched |-> FALSE,    \* the pointer moved the cursor to the word it is at, and
                             \* since then the left dial has not been turned
     accepted |-> [encoder1 |-> 0, encoder2 |-> 0]]  \* the bridge's pair when the relay accepted
                             \* the connection on which nothing has been handled yet

\* the turn of the right dial from f to g, recorded in h
Nav(h, f, g) ==
    LET change == rightRotation(g) - rightRotation(f)
        fresh == rightRotation(f) = 0 /\ f.lastRightRotationRef = 0
        met == \/ g.selectedWordIndex >= Len(g.words)
               \/ g.selectedWordIndex = 0 /\ change < 0
    IN  IF change # 0
        THEN [h EXCEPT !.navStart = IF fresh THEN f.selectedWordIndex ELSE @,
                       !.navClean = (fresh \/ @) /\ ~met,
                       !.navUp = (~fresh /\ @) \/ change > 0,
                       !.navDown = (~fresh /\ @) \/ change < 0]
        ELSE [h EXCEPT !.navClean = @ /\ g.selectedWordIndex = f.selectedWordIndex]

\* the cursor and the variants of the step from f to g labelled l, recorded in h
Arrive(h, l, f, g) ==
    LET answered == l.op = "resolve" /\ HasVariations(l.response)
        extended == /\ answered /\ l.request.kind = "predict"
                    /\ f.selectedWordIndex = Len(f.words)
        back == /\ f.isPredicting
                /\ f.selectedWordIndex # Len(f.words)
                /\ g.selectedWordIndex = Len(g.words)
        returned == IF l.op = "resolve" /\ l.request.kind = "predict" THEN FALSE
                    ELSE back \/ h.returned
    IN  IF g.selectedWordIndex # f.selectedWordIndex
        THEN [h EXCEPT !.arrived = At(g.words, g.selectedWordIndex),
                       !.origin = null,
                       !.returned = returned,
                       !.untouched = /\ l.op = "pointer"
                                     /\ g.selectedWordIndex < Len(g.words)]
        ELSE [h EXCEPT !.arrived = IF extended
                                   THEN At(g.words, g.selectedWordIndex) ELSE @,
                       !.origin = IF answered THEN l.request.position ELSE @,
                       !.returned = returned,
                       !.untouched = @ /\ rotation(g) = rotation(f)]

Step(l, f, g) == Arrive(Nav([hist EXCEPT !.last = l], f, g), l, f, g)

-----------------------------------------------------------------------------
(* Serial lines.  A line is the sequence of its pieces: "E1:", ",E2:", "-", *)
(* a run of digits, or something else.                                     *)

\* \d+ : the piece is a run of digits
digits(piece) == \E n \in Counters : piece = ToString(n)

\* parseInt(text, 10) of -?\d+
parseInt(text) ==
    LET n == CHOOSE k \in Counters : text[Len(text)] = ToString(k)
    IN  IF text[1] = "-" THEN -n ELSE n

\* (-?\d+) at piece i of the line: the pieces it takes, <<>> if it is not there
number(line, i) ==
    IF i <= Len(line) /\ digits(line[i]) THEN <<line[i]>>
    ELSE IF i + 1 <= Len(line) /\ line[i] = "-" /\ digits(line[i + 1])
    THEN <<"-", line[i + 1]>>
    ELSE <<>>

\* E1:(-?\d+),E2:(-?\d+) starting at piece i: the two groups, <<>> if no match
matchAt(line, i) ==
    IF line[i] # "E1:" THEN <<>>
    ELSE LET g1 == number(line, i + 1)
             j == i + 1 + Len(g1)
         IN  IF g1 = <<>> \/ j > Len(line) \/ line[j] # ",E2:" THEN <<>>
             ELSE LET g2 == number(line, j + 1)
                  IN  IF g2 = <<>> THEN <<>> ELSE <<g1, g2>>

\* msg.match(/E1:(-?\d+),E2:(-?\d+)/): the groups of the leftmost match
match(line) ==
    LET at == {i \in 1..Len(line) : matchAt(line, i) # <<>>}
    IN  IF at = {} THEN <<>>
        ELSE matchAt(line, CHOOSE i \in at : \A k \in at : i <= k)

-----------------------------------------------------------------------------
(* The bridge's serial connection.  A handle is a SerialPort object with   *)
(* its ReadlineParser: listeners says that the handlers of the port are    *)
(* attached (open, error, close, and the pipe to the parser), parsing that *)
(* the data handler of its parser is.                                      *)

Free == [state |-> "free", listeners |-> FALSE, parsing |-> FALSE]

\* new SerialPort({ path, baudRate }) piped to a parser, every handler attached
Opening == [state |-> "opening", listeners |-> TRUE, parsing |-> TRUE]

\* the fields of a new ArduinoHandler
Constructed ==
    [started |-> FALSE,      \* initialize() was called
     timer |-> FALSE,        \* reconnectTimer is set
     isConnected |-> FALSE,
     port |-> null,
     parser |-> null,
     handles |-> [h \in 1..MaxHandles |-> Free],
     attempts |-> <<>>]

\* the bridge after initialize() found the Arduino and its port opened
Attached ==
    [Constructed EXCEPT !.started = TRUE, !.timer = TRUE, !.isConnected = TRUE,
                        !.port = 1, !.parser = 1,
                        !.handles[1] = [Opening EXCEPT !.state = "open"]]

\* the handle is open, opening or closing: the bridge holds the device by it
Held(handle) == handle.state \in {"opening", "open", "closing"}

\* b without the dead handles that nothing of the bridge refers to any more
Collect(b) ==
    LET referred(h) == \/ b.port = h \/ b.parser = h
                       \/ \E i \in 1..Len(b.attempts) : b.attempts[i].port = h
    IN  [b EXCEPT !.handles =
            [h \in 1..MaxHandles |->
                IF b.handles[h].state \in {"closed", "failed"} /\ ~referred(h)
                THEN Free ELSE b.handles[h]]]

\* the call returns; initialize() then sets the interval timer
Return(b, first) == IF first THEN [b EXCEPT !.timer = TRUE] ELSE b

\* connectToArduino() up to its first await (first: called by initialize)
connectToArduino(b, first) ==
    IF b.isConnected /\ b.port # null /\ b.handles[b.port].state = "open"
    THEN Return(b, first)
    ELSE IF b.port = null
    THEN [b EXCEPT !.attempts =
             Append(@, [pc |-> "finding", port |-> null, first |-> first])]
    ELSE LET c == IF b.parser = null THEN b
                  ELSE [b EXCEPT !.handles[b.parser].parsing = FALSE,
                                 !.parser = null]
         IN  IF c.handles[c.port].state = "open"
             THEN [c EXCEPT !.handles[c.port] =
                               [state |-> "closing", listeners |-> FALSE,
                                parsing |-> FALSE],
                            !.attempts =
                               Append(@, [pc |-> "closing", port |-> c.port,
                                          first |-> first])]
             ELSE [c EXCEPT !.port = null,
                            !.attempts =
                               Append(@, [pc |-> "finding", port |-> null,
                                          first |-> first])]

\* the callback of this.port.close() runs: this.port = null, then findArduinoPort()
closed(b, i) ==
    LET a == b.attempts[i]
    IN  [b EXCEPT !.handles[a.port].state = "closed",
                  !.port = null,
                  !.attempts[i] = [a EXCEPT !.pc = "finding", !.port = null]]

\* findArduinoPort() found no port
notFound(b, i) ==
    Return([b EXCEPT !.isConnected = FALSE, !.attempts = RemoveAt(@, i)],
           b.attempts[i].first)

\* findArduinoPort() found the port: new SerialPort, parser and handlers on slot h
found(b, i, h) ==
    Return([b EXCEPT !.handles[h] = Opening,
                     !.port = h,
                     !.parser = h,
                     !.attempts = RemoveAt(@, i)],
           b.attempts[i].first)

\* the handlers of port h for its "open", "error" and "close" events
onPortEvent(b, h, connected) ==
    IF b.handles[h].listeners THEN [b EXCEPT !.isConnected = connected] ELSE b

-----------------------------------------------------------------------------
(* State *)

\* what keeps the model finite: every action is disabled where it would leave these
Within(f) ==
    /\ Len(f.words) <= hist.mounted + MaxGrowth
    /\ Len(f.pending) <= MaxPending
    /\ Abs(f.mouseRotation) <= MaxSteps * threshold
    /\ Abs(f.rightMouseRotation) <= MaxSteps * threshold

\* const connectWebSocket = () => { new WebSocket(wsUrl); let needsSync = true; ... }
NewSocket == [state |-> "connecting", needsSync |-> TRUE]

\* the page just mounted, the bridge initialized with the Arduino plugged in
\* and its port open; the run takes n events
Begin(n) ==
    /\ frame = Mount(InitialFrame)
    /\ socket = NewSocket
    /\ retryTimers = 0
    /\ relayConn = "none"
    /\ inbox = <<>>
    /\ currentData = [encoder1 |-> 0, encoder2 |-> 0]
    /\ bridge = Attached
    /\ device = TRUE
    /\ hist = InitialHist
    /\ budget = n

\* a run of any length: no budget
Init == Begin(null)

\* one event of the run
Event ==
    IF budget = null THEN UNCHANGED budget
    ELSE budget > 0 /\ budget' = budget - 1

network == <<socket, retryTimers, relayConn, inbox, currentData>>

-----------------------------------------------------------------------------
(* Steps of the page: pointer events and provider completions *)

\* one pointer: a press starts a drag only when no drag is going on
MouseDown(angle) ==
    /\ Event
    /\ UNCHANGED <<bridge, device>>
    /\ ~frame.isDragging /\ ~frame.isRightDragging
    /\ frame' = Render(frame, handleMouseDown(frame, angle))
    /\ hist' = Step([op |-> "pointer"], frame, frame')
    /\ UNCHANGED network

MouseMove(angle) ==
    /\ Event
    /\ UNCHANGED <<bridge, device>>
    /\ frame.isDragging
    /\ frame' = Render(frame, handleMouseMove(frame, angle))
    /\ Within(frame')
    /\ hist' = Step([op |-> "pointer"], frame, frame')
    /\ UNCHANGED network

MouseUp ==
    /\ Event
    /\ UNCHANGED <<bridge, device>>
    /\ frame.isDragging
    /\ frame' = Render(frame, handleMouseUp(frame))
    /\ hist' = Step([op |-> "pointer"], frame, frame')
    /\ UNCHANGED network

RightMouseDown(angle) ==
    /\ Event
    /\ UNCHANGED <<bridge, device>>
    /\ ~frame.isDragging /\ ~frame.isRightDragging
    /\ frame' = Render(frame, handleRightMouseDown(frame, angle))
    /\ hist' = Step([op |-> "pointer"], frame, frame')
    /\ UNCHANGED network

RightMouseMove(angle) ==
    /\ Event
    /\ UNCHANGED <<bridge, device>>
    /\ frame.isRightDragging
    /\ frame' = Render(frame, handleRightMouseMove(frame, angle))
    /\ Within(frame')
    /\ hist' = Step([op |-> "pointer"], frame, frame')
    /\ UNCHANGED network

RightMouseUp ==
    /\ Event
    /\ UNCHANGED <<bridge, device>>
    /\ frame.isRightDragging
    /\ frame' = Render(frame, handleRightMouseUp(frame))
    /\ hist' = Step([op |-> "pointer"], frame, frame')
    /\ UNCHANGED network

\* the i-th pending provider call completes with resp
FetchResolve(i, resp) ==
    LET q == frame.pending[i]
        f == [frame EXCEPT !.pending = RemoveAt(@, i)]
    IN  /\ Event
        /\ UNCHANGED <<bridge, device>>
        /\ frame' = Render(frame, Resolved(f, q, resp))
        /\ Within(frame')
        /\ hist' = Step([op |-> "resolve", request |-> q, response |-> resp],
                        frame, frame')
        /\ UNCHANGED network

-----------------------------------------------------------------------------
(* Steps of the relay connection *)

\* RelayConnection that sends nothing when it accepts the viewer
RelayConnectionSilent ==
    /\ Event
    /\ UNCHANGED <<bridge, device>>
    /\ socket.state = "connecting" /\ relayConn = "none"
    /\ relayConn' = "open"
    /\ inbox' = <<>>
    /\ hist' = [Step([op |-> "relay"], frame, frame) EXCEPT !.accepted = currentData]
    /\ UNCHANGED <<frame, socket, retryTimers, currentData>>

\* wss.on("connection"): the relay accepts the viewer and sends the current pair
RelayConnection ==
    /\ Event
    /\ UNCHANGED <<bridge, device>>
    /\ socket.state = "connecting" /\ relayConn = "none"
    /\ relayConn' = "open"
    /\ inbox' = <<Encoder(currentData.encoder1, currentData.encoder2)>>
    /\ hist' = [Step([op |-> "relay"], frame, frame) EXCEPT !.accepted = currentData]
    /\ UNCHANGED <<frame, socket, retryTimers, currentData>>

\* ws.onopen
WsOpen ==
    /\ Event
    /\ UNCHANGED <<bridge, device>>
    /\ socket.state = "connecting" /\ relayConn # "none"
    /\ socket' = [state |-> "open", needsSync |-> TRUE]
    /\ frame' = Render(frame, [frame EXCEPT !.arduinoConnected = TRUE])
    /\ hist' = Step([op |-> "socket"], frame, frame')
    /\ UNCHANGED <<retryTimers, relayConn, inbox, currentData>>

\* the observations the history keeps of one handled encoder message
Observe(message, sync) ==
    LET d1 == message.data.encoder1 - frame.lastEncoder1Ref
        d2 == message.data.encoder2 - frame.lastEncoder2Ref
        noop == /\ message.data.encoder1 * DetentGain = frame.encoderRotation
                /\ message.data.encoder2 * DetentGain = frame.rightEncoderRotation
                /\ message.data.encoder1 = frame.lastEncoder1Ref
                /\ message.data.encoder2 = frame.lastEncoder2Ref
        ticks == hist.ticksOnly /\ IF sync THEN noop
                                   ELSE Abs(d1) <= JumpLimit /\ Abs(d2) <= JumpLimit
    IN  [hist EXCEPT
           !.last = [op |-> "message", sync |-> sync, d1 |-> d1, d2 |-> d2],
           !.handled = Min(@ + 1, 2),
           !.accepted = [encoder1 |-> 0, encoder2 |-> 0],
           !.baselineFresh = TRUE,
           !.prev = message.data,
           !.prevSync = sync,
           !.sum1 = IF ~ticks THEN 0 ELSE IF sync THEN @ ELSE @ + d1,
           !.sum2 = IF ~ticks THEN 0 ELSE IF sync THEN @ ELSE @ + d2,
           !.ticksOnly = ticks]

\* ws.onmessage on the oldest undelivered message
WsMessage ==
    /\ Event
    /\ UNCHANGED <<bridge, device>>
    /\ socket.state = "open" /\ inbox # <<>>
    /\ LET message == Head(inbox)
           out == onmessage(frame, socket.needsSync, message)
       IN  /\ frame' = Render(frame, out.frame)
           /\ socket' = [socket EXCEPT !.needsSync = out.needsSync]
           /\ hist' = [Arrive(Observe(message, socket.needsSync /\ ~out.needsSync),
                              [op |-> "message"], frame, frame') EXCEPT
                          !.navClean = @ /\ rightRotation(frame') = rightRotation(frame)]
    /\ Within(frame')
    /\ inbox' = Tail(inbox)
    /\ UNCHANGED <<retryTimers, relayConn, currentData>>

\* ws.onmessage on a message that the relay of this repository never sends
WsStrayMessage(message) ==
    /\ Event
    /\ UNCHANGED <<bridge, device>>
    /\ socket.state = "open"
    /\ LET out == onmessage(frame, socket.needsSync, message)
       IN  /\ frame' = Render(frame, out.frame)
           /\ socket' = [socket EXCEPT !.needsSync = out.needsSync]
           /\ hist' = [Step([op |-> "stray", message |-> message], frame, frame')
                          EXCEPT !.ticksOnly = FALSE, !.sum1 = 0, !.sum2 = 0,
                                 !.navClean = FALSE]
    /\ Within(frame')
    /\ UNCHANGED <<retryTimers, relayConn, inbox, currentData>>

\* the connection is lost: the relay's end closes
RelayDrop ==
    /\ Event
    /\ UNCHANGED <<bridge, device>>
    /\ relayConn = "open"
    /\ relayConn' = "closed"
    /\ hist' = Step([op |-> "relay"], frame, frame)
    /\ UNCHANGED <<frame, socket, retryTimers, inbox, currentData>>

\* WsError that schedules a reconnect as onclose does
WsErrorRetries ==
    /\ Event
    /\ UNCHANGED <<bridge, device>>
    /\ socket.state \in {"connecting", "open"} /\ relayConn # "open"
    /\ socket' = [socket EXCEPT !.state = "failed"]
    /\ frame' = Render(frame, [frame EXCEPT !.arduinoConnected = FALSE])
    /\ retryTimers' = retryTimers + 1
    /\ hist' = Step([op |-> "socket"], frame, frame')
    /\ UNCHANGED <<relayConn, inbox, currentData>>

\* ws.onerror, which comes before onclose when the connection fails
WsError ==
    /\ Event
    /\ UNCHANGED <<bridge, device>>
    /\ socket.state \in {"connecting", "open"} /\ relayConn # "open"
    /\ socket' = [socket EXCEPT !.state = "failed"]
    /\ frame' = Render(frame, [frame EXCEPT !.arduinoConnected = FALSE])
    /\ hist' = Step([op |-> "socket"], frame, frame')
    /\ UNCHANGED <<retryTimers, relayConn, inbox, currentData>>

\* WsClose that schedules no reconnect
WsCloseNoRetry ==
    /\ Event
    /\ UNCHANGED <<bridge, device>>
    /\ socket.state \in {"connecting", "open", "failed"} /\ relayConn # "open"
    /\ socket' = [socket EXCEPT !.state = "closed"]
    /\ frame' = Render(frame, [frame EXCEPT !.arduinoConnected = FALSE])
    /\ relayConn' = "none"
    /\ inbox' = <<>>
    /\ hist' = [Step([op |-> "socket"], frame, frame') EXCEPT
                   !.accepted = [encoder1 |-> 0, encoder2 |-> 0]]
    /\ UNCHANGED <<retryTimers, currentData>>

\* ws.onclose: what was not delivered is lost, a reconnect is scheduled
WsClose ==
    /\ Event
    /\ UNCHANGED <<bridge, device>>
    /\ socket.state \in {"connecting", "open", "failed"} /\ relayConn # "open"
    /\ socket' = [socket EXCEPT !.state = "closed"]
    /\ frame' = Render(frame, [frame EXCEPT !.arduinoConnected = FALSE])
    /\ retryTimers' = retryTimers + 1
    /\ relayConn' = "none"
    /\ inbox' = <<>>
    /\ hist' = [Step([op |-> "socket"], frame, frame') EXCEPT
                   !.accepted = [encoder1 |-> 0, encoder2 |-> 0]]
    /\ UNCHANGED currentData

\* setTimeout(connectWebSocket, 3000) fires
ConnectWebSocket ==
    /\ Event
    /\ UNCHANGED <<bridge, device>>
    /\ retryTimers > 0
    /\ retryTimers' = retryTimers - 1
    /\ socket' = NewSocket
    /\ hist' = [hist EXCEPT !.last = [op |-> "socket"], !.reconnected = TRUE,
                            !.handled = 0, !.baselineFresh = FALSE]
    /\ UNCHANGED <<frame, relayConn, inbox, currentData>>

\* setTimeout(connectWebSocket, 3000) fires and new WebSocket(wsUrl) throws:
\* the catch block schedules the next call
ConnectWebSocketThrows ==
    /\ Event
    /\ UNCHANGED <<bridge, device>>
    /\ retryTimers > 0
    /\ retryTimers' = (retryTimers - 1) + 1
    /\ hist' = [hist EXCEPT !.last = [op |-> "throw"]]
    /\ UNCHANGED <<frame, socket, relayConn, inbox, currentData>>

\* the cleanup of the WebSocket effect, run when the component is unmounted:
\* if (wsRef.current) wsRef.current.close()
Unmount ==
    /\ Event
    /\ UNCHANGED <<bridge, device>>
    /\ frame.mounted
    /\ frame' = [frame EXCEPT !.mounted = FALSE]
    /\ socket' = IF socket.state \in {"connecting", "open"}
                 THEN [socket EXCEPT !.state = "closing"] ELSE socket
    /\ hist' = [hist EXCEPT !.last = [op |-> "unmount"]]
    /\ UNCHANGED <<retryTimers, relayConn, inbox, currentData>>

\* ws.onclose on an unmounted component: setArduinoConnected does nothing,
\* the reconnect is scheduled
WsCloseUnmounted ==
    /\ Event
    /\ UNCHANGED <<bridge, device>>
    /\ ~frame.mounted
    /\ \/ socket.state = "closing"
       \/ socket.state \in {"connecting", "open", "failed"} /\ relayConn # "open"
    /\ socket' = [socket EXCEPT !.state = "closed"]
    /\ retryTimers' = retryTimers + 1
    /\ relayConn' = "none"
    /\ inbox' = <<>>
    /\ hist' = [hist EXCEPT !.last = [op |-> "socket"],
                            !.accepted = [encoder1 |-> 0, encoder2 |-> 0]]
    /\ UNCHANGED <<frame, currentData>>

-----------------------------------------------------------------------------
(* Steps of the bridge *)

\* broadcast that reaches no viewer
broadcastToNone(data) == inbox

\* this.broadcast(data): to the viewer if its connection is open
broadcast(data) ==
    IF relayConn = "open"
    THEN Append(inbox, Encoder(data.encoder1, data.encoder2))
    ELSE inbox

\* a handle of the bridge is open with the data handler of its parser attached
Listening ==
    /\ device
    /\ \E h \in 1..MaxHandles :
          bridge.handles[h].state = "open" /\ bridge.handles[h].parsing

\* Publish that broadcasts the pair whether it changed or not
PublishAlways(encoder1, encoder2) ==
    /\ currentData' = [encoder1 |-> encoder1, encoder2 |-> encoder2]
    /\ inbox' = broadcast(currentData')
    /\ Len(inbox') <= MaxInbox

\* the counters parsed from a line: update and broadcast if they changed
Publish(encoder1, encoder2) ==
    /\ IF currentData.encoder1 # encoder1 \/ currentData.encoder2 # encoder2
       THEN /\ currentData' = [encoder1 |-> encoder1, encoder2 |-> encoder2]
            /\ inbox' = broadcast(currentData')
       ELSE UNCHANGED <<currentData, inbox>>
    /\ Len(inbox') <= MaxInbox

\* parser.on("data") on a line "E1:<encoder1>,E2:<encoder2>"
SerialData(encoder1, encoder2) ==
    /\ Event
    /\ UNCHANGED <<bridge, device>>
    /\ Listening
    /\ Publish(encoder1, encoder2)
    /\ hist' = Step([op |-> "serial"], frame, frame)
    /\ UNCHANGED <<frame, socket, retryTimers, relayConn>>

\* parser.on("data") on any line: msg.match(/E1:(-?\d+),E2:(-?\d+)/)
SerialLine(line) ==
    /\ Event
    /\ UNCHANGED <<bridge, device>>
    /\ Listening
    /\ LET m == match(line)
       IN  IF m = <<>> THEN UNCHANGED <<currentData, inbox>>
           ELSE Publish(parseInt(m[1]), parseInt(m[2]))
    /\ hist' = [hist EXCEPT !.last = [op |-> "line", line |-> line]]
    /\ UNCHANGED <<frame, socket, retryTimers, relayConn>>

\* the steps of the bridge's serial connection change nothing else
BridgeStep(b, name) ==
    /\ Event
    /\ bridge' = Collect(b)
    /\ hist' = [hist EXCEPT !.last = [op |-> name]]
    /\ UNCHANGED <<frame, socket, retryTimers, relayConn, inbox, currentData>>

\* initialize(wss): the first call of connectToArduino, awaited
Initialize ==
    /\ ~bridge.started
    /\ BridgeStep(connectToArduino([bridge EXCEPT !.started = TRUE], TRUE), "attempt")
    /\ UNCHANGED device

\* the interval timer fires: if (!this.isConnected) await this.connectToArduino()
RetryTick ==
    /\ bridge.timer /\ ~bridge.isConnected
    /\ Len(bridge.attempts) < MaxAttempts
    /\ BridgeStep(connectToArduino(bridge, FALSE), "attempt")
    /\ UNCHANGED device

\* the close of the stale port completes
PortClosed(i) ==
    /\ bridge.attempts[i].pc = "closing"
    /\ BridgeStep(closed(bridge, i), "closed")
    /\ UNCHANGED device

\* findArduinoPort() returns: the port if the Arduino is plugged in
PortFound(i) ==
    /\ bridge.attempts[i].pc = "finding"
    /\ IF device
       THEN \E h \in 1..MaxHandles :
               /\ bridge.handles[h].state = "free"
               /\ \A g \in 1..(h - 1) : bridge.handles[g].state # "free"
               /\ BridgeStep(found(bridge, i, h), "found")
       ELSE BridgeStep(notFound(bridge, i), "found")
    /\ UNCHANGED device

\* another handle has the Arduino's port open (a port is opened with the
\* default lock: true, which makes the open exclusive)
Locked(h) ==
    \E g \in 1..MaxHandles :
        g # h /\ bridge.handles[g].state \in {"open", "closing"}

\* the port opens: port.on("open")
PortOpen(h) ==
    /\ bridge.handles[h].state = "opening"
    /\ device /\ ~Locked(h)
    /\ BridgeStep(onPortEvent([bridge EXCEPT !.handles[h].state = "open"], h, TRUE),
                  "open")
    /\ UNCHANGED device

\* the port cannot be opened, the Arduino being unplugged or held by another
\* handle: port.on("error")
PortOpenFails(h) ==
    /\ bridge.handles[h].state = "opening"
    /\ ~device \/ Locked(h)
    /\ BridgeStep(onPortEvent([bridge EXCEPT !.handles[h].state = "failed"], h, FALSE),
                  "error")
    /\ UNCHANGED device

\* an open port reports an error and stays open: port.on("error")
PortError(h) ==
    /\ bridge.handles[h].state = "open"
    /\ bridge.handles[h].listeners /\ bridge.isConnected
    /\ BridgeStep(onPortEvent(bridge, h, FALSE), "error")
    /\ UNCHANGED device

\* the Arduino is unplugged: every open port closes, port.on("close")
Unplug ==
    /\ device
    /\ device' = FALSE
    /\ LET open == {h \in 1..MaxHandles : bridge.handles[h].state = "open"}
           b == [bridge EXCEPT !.handles =
                    [h \in 1..MaxHandles |->
                        IF h \in open THEN [@[h] EXCEPT !.state = "closed"]
                        ELSE @[h]]]
       IN  BridgeStep(IF \E h \in open : bridge.handles[h].listeners
                      THEN [b EXCEPT !.isConnected = FALSE] ELSE b,
                      "unplug")

\* the Arduino is plugged in
Plug ==
    /\ ~device
    /\ device' = TRUE
    /\ BridgeStep(bridge, "plug")

-----------------------------------------------------------------------------
(* Specifications *)

LeftPointer ==
    \/ \E angle \in PointerAngles : MouseDown(angle)
    \/ \E angle \in PointerAngles : MouseMove(angle)
    \/ MouseUp

RightPointer ==
    \/ \E angle \in PointerAngles : RightMouseDown(angle)
    \/ \E angle \in PointerAngles : RightMouseMove(angle)
    \/ RightMouseUp

Provider(responses) ==
    \E i \in 1..Len(frame.pending), resp \in responses : FetchResolve(i, resp)

Relay ==
    \/ RelayConnection
    \/ WsOpen
    \/ WsMessage
    \/ RelayDrop
    \/ WsError
    \/ WsClose
    \/ ConnectWebSocket

Bridge == \E e1 \in Counters, e2 \in Counters : SerialData(e1, e2)

\* the right dial turned with the mouse, the relay never reached
NextNav == RightPointer \/ Provider(ProviderResponses)

SpecNav == Init /\ [][NextNav]_vars

\* the dials turned by the device only; every provider call fails, and fails
\* before the next event of the relay or the bridge
Settled == frame.pending = <<>>

ProviderFails == Provider({[kind |-> "error"]})

SettledRelayConnection == Settled /\ RelayConnection

SettledWsOpen == Settled /\ WsOpen

SettledWsMessage == Settled /\ WsMessage

SettledRelayDrop == Settled /\ RelayDrop

SettledWsError == Settled /\ WsError

SettledWsClose == Settled /\ WsClose

SettledConnectWebSocket == Settled /\ ConnectWebSocket

SettledSerialData ==
    Settled /\ \E e1 \in Counters, e2 \in Counters : SerialData(e1, e2)

NextRelay ==
    \/ ProviderFails
    \/ SettledRelayConnection
    \/ SettledWsOpen
    \/ SettledWsMessage
    \/ SettledRelayDrop
    \/ SettledWsError
    \/ SettledWsClose
    \/ SettledConnectWebSocket
    \/ SettledSerialData

SpecRelay == Init /\ [][NextRelay]_vars

\* both dials dragged, the right one in sweeps; runs of MaxEvents events
Sweep ==
    \/ \E angle \in SweepAngles : RightMouseDown(angle)
    \/ \E angle \in SweepAngles : RightMouseMove(angle)
    \/ RightMouseUp

NextEdit == LeftPointer \/ Sweep \/ Provider(ProviderResponses)

SpecEdit == Begin(MaxEvents) /\ [][NextEdit]_vars

\* the device turns the left dial only
LeftDial == \E e1 \in Counters : SerialData(e1, currentData.encoder2)

\* the relay connection lost and made again while the device turns the left
\* dial; a timer that is set fires, and creating the socket does not fail for
\* ever
NextReconnect == Relay \/ ConnectWebSocketThrows \/ LeftDial

SpecReconnect ==
    Init /\ [][NextReconnect]_vars /\ WF_vars(ConnectWebSocket)

\* the relay connection while the component is mounted and after it is
\* unmounted: the timers and the sockets outlive the component
MountedRelayConnection == frame.mounted /\ RelayConnection

MountedWsOpen == frame.mounted /\ WsOpen

MountedWsMessage == frame.mounted /\ WsMessage

MountedRelayDrop == frame.mounted /\ RelayDrop

MountedWsError == frame.mounted /\ WsError

MountedWsClose == frame.mounted /\ WsClose

MountedLeftDial == frame.mounted /\ LeftDial

UnmountedRelayConnection == ~frame.mounted /\ RelayConnection

UnmountedRelayDrop == ~frame.mounted /\ RelayDrop

NextTeardown ==
    \/ MountedRelayConnection
    \/ MountedWsOpen
    \/ MountedWsMessage
    \/ MountedRelayDrop
    \/ MountedWsError
    \/ MountedWsClose
    \/ MountedLeftDial
    \/ ConnectWebSocket
    \/ ConnectWebSocketThrows
    \/ Unmount
    \/ WsCloseUnmounted
    \/ UnmountedRelayConnection
    \/ UnmountedRelayDrop

SpecTeardown == Init /\ [][NextTeardown]_vars

\* the bridge from its construction on, with the relay and one viewer: the
\* Arduino plugged and unplugged, the retry timer firing at any time; the
\* run takes n events
BeginBridge(n) ==
    /\ frame = Mount(InitialFrame)
    /\ socket = NewSocket
    /\ retryTimers = 0
    /\ relayConn = "none"
    /\ inbox = <<>>
    /\ currentData = [encoder1 |-> 0, encoder2 |-> 0]
    /\ bridge = Constructed
    /\ device \in BOOLEAN
    /\ hist = InitialHist
    /\ budget = n

Connection ==
    \/ Initialize
    \/ RetryTick
    \/ \E i \in 1..Len(bridge.attempts) : PortClosed(i)
    \/ \E i \in 1..Len(bridge.attempts) : PortFound(i)
    \/ \E h \in 1..MaxHandles : PortOpen(h)
    \/ \E h \in 1..MaxHandles : PortOpenFails(h)
    \/ \E h \in 1..MaxHandles : PortError(h)
    \/ Unplug
    \/ Plug

Lines == \E line \in GoodLines \cup BadLines : SerialLine(line)

NextBridge == Connection \/ Lines \/ Relay

SpecBridge == BeginBridge(MaxBridge) /\ [][NextBridge]_vars

\* the bridge's serial connection alone, in runs of any length: what the
\* bridge has started (a timer, an await, the opening of a port) happens
Progress ==
    /\ WF_vars(Initialize)
    /\ WF_vars(RetryTick)
    /\ WF_vars(\E i \in 1..Len(bridge.attempts) : PortClosed(i))
    /\ WF_vars(\E i \in 1..Len(bridge.attempts) : PortFound(i))
    /\ WF_vars(\E h \in 1..MaxHandles : PortOpen(h))
    /\ WF_vars(\E h \in 1..MaxHandles : PortOpenFails(h))

SpecConnect == BeginBridge(null) /\ [][Connection]_vars /\ Progress

\* the page mounted with the first n words of the sentence and the cursor at
\* c, for the window of every sentence length and cursor; runs of MaxView events
BeginWindow ==
    \E n \in 1..MaxWords : \E c \in 0..n :
        LET ws == SubSeq(FULL_SENTENCE, 1, n)
        IN  /\ frame = Mount([InitialFrame EXCEPT !.words = ws,
                                                  !.selectedWordIndex = c])
            /\ socket = NewSocket
            /\ retryTimers = 0
            /\ relayConn = "none"
            /\ inbox = <<>>
            /\ currentData = [encoder1 |-> 0, encoder2 |-> 0]
            /\ bridge = Attached
            /\ device = TRUE
            /\ hist = [InitialHist EXCEPT !.mounted = n, !.navStart = c,
                                          !.arrived = At(ws, c)]
            /\ budget = MaxView

SpecWindow == BeginWindow /\ [][NextNav]_vars

\* every event of the page, the relay and the bridge; runs of MaxRun events
Stray == \E message \in Malformed : WsStrayMessage(message)

Next ==
    \/ LeftPointer
    \/ RightPointer
    \/ Provider(ProviderResponses)
    \/ Relay
    \/ Bridge
    \/ Stray

Spec == Begin(MaxRun) /\ [][Next]_vars

-----------------------------------------------------------------------------
(* Properties *)

\* the step just taken completed a provider call of the given kind
Completed(kind) ==
    hist'.last.op = "resolve" /\ hist'.last.request.kind = kind

\* C1: a variant fetch that resolves when the cursor is no longer the cursor
\* it was issued at changes neither currentVariations nor
\* variationsFetchedForIndex.
StaleFetchGuard ==
    [][(/\ Completed("variant")
        /\ hist'.last.request.position # frame.selectedWordIndex)
       => /\ frame'.currentVariations = frame.currentVariations
          /\ frame'.variationsFetchedForIndex = frame.variationsFetchedForIndex]_vars

\* C2: when the predict call completes with an error or without variations
\* while the cursor is at the sentinel, the sentence is unchanged, isPredicting
\* is false and the cursor is back at sentence.length - 1.
ExtensionFailureRecovery ==
    [][(/\ Completed("predict")
        /\ ~HasVariations(hist'.last.response)
        /\ frame.selectedWordIndex = Len(frame.words))
       => /\ frame'.words = frame.words
          /\ ~frame'.isPredicting
          /\ frame'.selectedWordIndex = Len(frame'.words) - 1]_vars

\* a turn of the right dial by +60 degrees from the last word, nothing unconsumed
TurnPastEnd ==
    /\ frame.selectedWordIndex = Len(frame.words) - 1
    /\ rightRotation(frame) = frame.lastRightRotationRef
    /\ rightRotation(frame') = rightRotation(frame) + threshold

\* the turn moved the cursor to the sentinel and issued the predict request
PredictIssued ==
    /\ frame'.selectedWordIndex = Len(frame.words)
    /\ frame'.pending =
         Append(frame.pending,
                [kind |-> "predict", word |-> PREDICT,
                 context |-> join(frame.words) \o " [MASK]",
                 position |-> Len(frame.words)])

\* the predict request returned a non-empty list with the cursor at the sentinel
PredictAnswered ==
    /\ Completed("predict")
    /\ HasVariations(hist'.last.response)
    /\ frame.selectedWordIndex = Len(frame.words)
    /\ hist'.last.request.position = Len(frame.words)

\* the sentence got the first variation appended, the cursor points at it
Extended ==
    /\ frame'.words = Append(frame.words, hist'.last.response.variations[1])
    /\ frame'.selectedWordIndex = Len(frame.words)
    /\ ~frame'.isPredicting

NetMovement == frame.selectedWordIndex - hist.navStart

\* C4 as stated: for any sequence of right-dial angle changes from angle 0 that
\* meets neither the floor nor the end, the net cursor movement is
\* floor(totalAngle / 60).
RemainderPreservationAnySequence ==
    hist.navClean => NetMovement = rightRotation(frame) \div threshold

\* C4 amended: for any such sequence of changes that are all in one direction,
\* the net cursor movement is floor(|totalAngle| / 60) steps in that direction.
RemainderPreservation ==
    (hist.navClean /\ ~(hist.navUp /\ hist.navDown))
      => NetMovement =
           IF hist.navDown
           THEN -(Abs(rightRotation(frame)) \div threshold)
           ELSE rightRotation(frame) \div threshold

\* C4 witness: one step back reached in pieces, with a remainder left over
RemainderPreservationWitness ==
    /\ hist.navClean /\ hist.navDown /\ ~hist.navUp
    /\ rightRotation(frame) = -(threshold + 300)
    /\ NetMovement = -1

\* C5: the sentence is never empty and 0 <= cursor <= sentence.length; a turn
\* of the right dial by k steps backward from cursor c gives max(0, c - k).
CursorValidity ==
    /\ [](/\ Len(frame.words) >= 1
          /\ frame.selectedWordIndex >= 0
          /\ frame.selectedWordIndex <= Len(frame.words))
    /\ [][LET change == rightRotation(frame') - frame.lastRightRotationRef
              k == Abs(change) \div threshold
          IN  (change < 0 /\ k > 0)
                => frame'.selectedWordIndex = Max(0, frame.selectedWordIndex - k)]_vars

\* C5 witness: the dial was turned backward past the first word
CursorValidityWitness ==
    /\ hist.last.op = "pointer"
    /\ frame.selectedWordIndex = 0
    /\ frame.lastRightRotationRef < 0

\* the step just taken handled an encoder message
Handled == hist'.last.op = "message"

\* both dials stand at the absolute position of the message, which is the baseline
SyncedTo(f, data) ==
    /\ f.encoderRotation = data.encoder1 * DetentGain
    /\ f.rightEncoderRotation = data.encoder2 * DetentGain
    /\ f.lastEncoder1Ref = data.encoder1
    /\ f.lastEncoder2Ref = data.encoder2

\* the encoder part of the component state
Dials(f) ==
    <<f.encoderRotation, f.rightEncoderRotation,
      f.lastEncoder1Ref, f.lastEncoder2Ref>>

\* C6: the first encoder message handled on every socket is applied as a
\* resync of both dials, and no delta is computed against a baseline that was
\* recorded on an earlier socket.
ResyncBeforeDeltas ==
    [][Handled =>
         /\ hist.handled = 0 =>
              hist'.last.sync /\ SyncedTo(frame', Head(inbox).data)
         /\ ~hist'.last.sync => hist.baselineFresh]_vars

\* C6 witness: after a reconnect the first message moved the dials to a
\* position that the old baseline was more than JumpLimit detents away from
ResyncBeforeDeltasWitness ==
    /\ hist.reconnected
    /\ hist.last.op = "message" /\ hist.last.sync
    /\ hist.handled = 1
    /\ Abs(hist.last.d1) > JumpLimit
    /\ frame.encoderRotation = frame.lastEncoder1Ref * DetentGain

\* C7: a resync to c sets the contribution to 3.6 * c whatever it was before;
\* a tick that follows with the counter still at c changes nothing of that
\* dial; a second resync to the same counters changes nothing.
ResyncIdempotence ==
    [][Handled =>
         LET data == Head(inbox).data
         IN  /\ hist'.last.sync => SyncedTo(frame', data)
             /\ (~hist'.last.sync /\ hist.prevSync
                   /\ data.encoder1 = hist.prev.encoder1)
                  => /\ frame'.encoderRotation = frame.encoderRotation
                     /\ frame'.lastEncoder1Ref = frame.lastEncoder1Ref
             /\ (~hist'.last.sync /\ hist.prevSync
                   /\ data.encoder2 = hist.prev.encoder2)
                  => /\ frame'.rightEncoderRotation = frame.rightEncoderRotation
                     /\ frame'.lastEncoder2Ref = frame.lastEncoder2Ref
             /\ (hist'.last.sync /\ hist.prevSync /\ data = hist.prev)
                  => Dials(frame') = Dials(frame)]_vars

\* C7 witness: a resync replaced a contribution that was not 3.6 * c
ResyncIdempotenceWitness ==
    /\ hist.last.op = "message" /\ hist.last.sync
    /\ hist.last.d2 # 0
    /\ frame.rightEncoderRotation = (JumpLimit + 1) * DetentGain
    /\ frame.lastEncoder2Ref = JumpLimit + 1

\* C8: as long as the dials were moved by ticks of at most JumpLimit detents
\* only, each contribution is 3.6 times the sum of the deltas of its ticks.
DeltaConservation ==
    hist.ticksOnly =>
        /\ frame.encoderRotation = DetentGain * hist.sum1
        /\ frame.rightEncoderRotation = DetentGain * hist.sum2

\* C8 witness: JumpLimit + 1 detents, which only several ticks can add up to
DeltaConservationWitness ==
    /\ hist.ticksOnly
    /\ hist.sum1 = JumpLimit + 1
    /\ hist.sum2 = JumpLimit

\* the tick rule for one dial: counter n against baseline p
TickRule(n, p, hw, hwNew, pNew) ==
    /\ n = p => hwNew = hw /\ pNew = p
    /\ (n # p /\ Abs(n - p) <= JumpLimit)
         => hwNew = hw + (n - p) * DetentGain /\ pNew = n
    /\ Abs(n - p) > JumpLimit => hwNew = n * DetentGain /\ pNew = n

\* C9: a message that is not a resync leaves a dial alone if its counter is
\* the baseline, adds 3.6 * delta if |delta| <= 100, sets 3.6 * counter if
\* |delta| > 100, and makes the counter the baseline in both cases.
HardwareTickRule ==
    [][(Handled /\ ~hist'.last.sync) =>
         LET data == Head(inbox).data
         IN  /\ TickRule(data.encoder1, frame.lastEncoder1Ref,
                         frame.encoderRotation, frame'.encoderRotation,
                         frame'.lastEncoder1Ref)
             /\ TickRule(data.encoder2, frame.lastEncoder2Ref,
                         frame.rightEncoderRotation, frame'.rightEncoderRotation,
                         frame'.lastEncoder2Ref)]_vars

\* C9 witness: a tick of exactly JumpLimit detents on one dial, none on the other
HardwareTickRuleWitness ==
    /\ hist.last.op = "message" /\ ~hist.last.sync
    /\ hist.last.d1 = -JumpLimit /\ hist.last.d2 = 0
    /\ frame.encoderRotation = 0

\* the viewer's connection is open at both ends and nothing is left to handle
CaughtUp == socket.state = "open" /\ relayConn = "open" /\ inbox = <<>>

\* C10: whenever the viewer has handled everything the relay sent on an open
\* connection, each contribution is 3.6 times the bridge's counter.
HardwareAgreement ==
    CaughtUp =>
        /\ frame.encoderRotation = DetentGain * currentData.encoder1
        /\ frame.rightEncoderRotation = DetentGain * currentData.encoder2

\* C10 witness: caught up after a reconnect and a tick, the device having jumped
HardwareAgreementWitness ==
    /\ CaughtUp
    /\ hist.reconnected /\ hist.handled = 2
    /\ ~hist.ticksOnly
    /\ currentData = [encoder1 |-> JumpLimit + 1, encoder2 |-> JumpLimit]

\* the mouse contributions of the two dials
Drags(f) == <<f.mouseRotation, f.rightMouseRotation>>

\* C11: a pointer event on a dial changes no contribution and no baseline
\* other than that dial's mouse contribution; an encoder message changes no
\* mouse contribution; the angle that drives the cursor is the sum of the
\* right dial's two contributions (what is left unconsumed of it is less
\* than one step).
SourceSeparation ==
    /\ [][/\ hist'.last.op = "pointer" =>
               (/\ Dials(frame') = Dials(frame)
                /\ ((frame.isDragging \/ frame'.isDragging)
                      => frame'.rightMouseRotation = frame.rightMouseRotation)
                /\ ((frame.isRightDragging \/ frame'.isRightDragging)
                      => frame'.mouseRotation = frame.mouseRotation))
          /\ hist'.last.op \in {"message", "stray"} =>
               Drags(frame') = Drags(frame)]_vars
    /\ [](frame.rightEncoderRotation # NaN =>
             Abs(frame.rightMouseRotation + frame.rightEncoderRotation
                   - frame.lastRightRotationRef) < threshold)

\* C11 witness: the right dial dragged after the device had turned it
SourceSeparationWitness ==
    /\ hist.last.op = "pointer"
    /\ frame.rightMouseRotation = 300
    /\ frame.rightEncoderRotation = JumpLimit * DetentGain
    /\ frame.lastRightRotationRef = JumpLimit * DetentGain

\* C12: a message that is not JSON, is not of type "encoder", has no data or
\* lacks a counter changes no contribution and no baseline, and the resync
\* that is pending stays pending.
MalformedDropped ==
    [][hist'.last.op = "stray" =>
         /\ Dials(frame') = Dials(frame)
         /\ Drags(frame') = Drags(frame)
         /\ socket'.needsSync = socket.needsSync]_vars

\* the step just taken changed the angle of the left dial
LeftTurned == rotation(frame') # rotation(frame)

\* the variants of the word at the cursor have been fetched
Fetched(f) ==
    /\ f.variationsFetchedForIndex = f.selectedWordIndex
    /\ Len(f.currentVariations) >= 1

\* variants[floor(|angle| / 60) mod L] for the angle of g and the variants of f
Chosen(f, g) ==
    f.currentVariations[
        ((Abs(rotation(g)) \div threshold) % Len(f.currentVariations)) + 1]

\* ws and vs are the same sentence but for position i
SameBut(ws, vs, i) ==
    /\ Len(ws) = Len(vs)
    /\ \A j \in 0..(Len(ws) - 1) : j # i => At(ws, j) = At(vs, j)

\* C13: a change of the left dial's angle made when the variants of the word
\* at the cursor have been fetched writes variants[floor(|angle| / 60) mod L]
\* at the cursor, leaves every other position and the length of the sentence
\* alone and issues no provider call.
VariantCycling ==
    [][(LeftTurned /\ Fetched(frame) /\ rotation(frame') # NaN) =>
         /\ At(frame'.words, frame.selectedWordIndex) = Chosen(frame, frame')
         /\ SameBut(frame'.words, frame.words, frame.selectedWordIndex)
         /\ frame'.pending = frame.pending]_vars

\* C14: when a variant fetch issued at cursor c for word w returns a
\* non-empty list r with the cursor still at c, currentVariations becomes w
\* followed by r, variationsFetchedForIndex becomes c and the sentence stays
\* as it was.
VariantFetchSuccess ==
    [][(/\ Completed("variant")
        /\ HasVariations(hist'.last.response)
        /\ hist'.last.request.position = frame.selectedWordIndex)
       => /\ frame'.currentVariations =
               <<hist'.last.request.word>> \o hist'.last.response.variations
          /\ frame'.variationsFetchedForIndex = frame.selectedWordIndex
          /\ frame'.words = frame.words]_vars

\* C14 witness: the fetch that a turn of the left dial issued for the second
\* word came back with two variants
VariantFetchSuccessWitness ==
    /\ hist.last.op = "resolve"
    /\ hist.last.request = [kind |-> "variant", word |-> "remain",
                            context |-> join(INITIAL_SENTENCE), position |-> 1]
    /\ frame.selectedWordIndex = 1
    /\ frame.currentVariations = <<"remain", "I", "they">>
    /\ frame.variationsFetchedForIndex = 1
    /\ frame.words = INITIAL_SENTENCE

\* C15: whenever the cursor is at a word whose variants have been fetched,
\* the first variant is the word that the cursor found there when it last
\* moved (or the word an extension appended there), and the other variants
\* are the answer to a request for that position.
VariantOrigin ==
    (/\ frame.selectedWordIndex < Len(frame.words)
     /\ frame.variationsFetchedForIndex = frame.selectedWordIndex)
      => /\ Len(frame.currentVariations) >= 1
         /\ frame.currentVariations[1] = hist.arrived
         /\ hist.origin \in {null, frame.selectedWordIndex}

\* C16: when the variant fetch for the cursor's position has come back
\* without variants and no later one with variants (the position is marked
\* as fetched, what currentVariations holds is not the answer to a request
\* for it), a change of the left dial's angle leaves the word at the cursor
\* as it is.
FailedFetchKeepsWord ==
    [][(/\ LeftTurned
        /\ frame'.selectedWordIndex = frame.selectedWordIndex
        /\ frame.variationsFetchedForIndex = frame.selectedWordIndex
        /\ hist.origin # frame.selectedWordIndex)
       => At(frame'.words, frame.selectedWordIndex)
            = At(frame.words, frame.selectedWordIndex)]_vars

\* the cursor is at the pending-extension sentinel
AtSentinel(f) == f.selectedWordIndex = Len(f.words)

\* C17: while the cursor is at the sentinel no pointer event changes the
\* cursor, the sentence, currentVariations or variationsFetchedForIndex, and
\* the cursor leaves the sentinel only when the predict call completes.
SentinelBlocksInput ==
    [][AtSentinel(frame) =>
         /\ hist'.last.op = "pointer" =>
               /\ frame'.selectedWordIndex = frame.selectedWordIndex
               /\ frame'.words = frame.words
               /\ frame'.currentVariations = frame.currentVariations
               /\ frame'.variationsFetchedForIndex = frame.variationsFetchedForIndex
         /\ ~AtSentinel(frame') => Completed("predict")]_vars

\* the predict calls in flight
Predicts(f) ==
    Cardinality({i \in 1..Len(f.pending) : f.pending[i].kind = "predict"})

\* the predict calls that the step just taken issued
PredictsIssued ==
    Predicts(frame') - Predicts(frame) + (IF Completed("predict") THEN 1 ELSE 0)

\* C18: a step issues a predict call only if it moves the cursor into the
\* sentinel, and then it issues one (none if a predict call is in flight).
OnePredictPerEntry ==
    [][LET entered == ~AtSentinel(frame) /\ AtSentinel(frame')
       IN  /\ PredictsIssued > 0 => entered
           /\ (entered /\ ~frame.isPredicting) => PredictsIssued = 1]_vars

\* C19: neither the loss of the relay connection, nor the reconnection, nor
\* the resync on the new socket changes the cursor or a word of the sentence.
TransportLossInvisible ==
    [][(\/ hist'.last.op \in {"relay", "socket"}
        \/ Handled /\ hist'.last.sync /\ hist.reconnected)
       => /\ frame'.selectedWordIndex = frame.selectedWordIndex
          /\ frame'.words = frame.words]_vars

-----------------------------------------------------------------------------
(* Pointer deltas and the sentence window *)

\* d is a delta in (-180, 180] degrees congruent to current - previous
Normalized(d, current, previous) ==
    /\ -HalfTurn < d /\ d <= HalfTurn
    /\ (d - (current - previous)) % FullTurn = 0

\* C26: a mouse move of either dial adds to the dial's mouse contribution a
\* delta that lies in (-180, 180] degrees and is congruent modulo 360 to the
\* difference of the current and the previous pointer angle.
MouseDeltaNormalized ==
    [][hist'.last.op = "pointer" =>
         /\ (frame.isDragging /\ frame'.isDragging) =>
               Normalized(frame'.mouseRotation - frame.mouseRotation,
                          frame'.lastAngleRef, frame.lastAngleRef)
         /\ (frame.isRightDragging /\ frame'.isRightDragging) =>
               Normalized(frame'.rightMouseRotation - frame.rightMouseRotation,
                          frame'.lastRightAngleRef, frame.lastRightAngleRef)]_vars

\* C27: the displayed window [start, end) lies within the sentence, holds
\* min(6, n) words, and holds the word at the cursor unless the cursor is at
\* the end of the sentence.
DisplayWindow ==
    LET n == Len(frame.words)
        c == frame.selectedWordIndex
        w == Window(frame)
    IN  /\ 0 <= w.start /\ w.start <= w.end /\ w.end <= n
        /\ w.end - w.start = Min(maxVisible, n)
        /\ c < n => (w.start <= c /\ c < w.end)

\* C27 witness: the right dial moved the cursor to the last word of a
\* sentence longer than the window, whose start was moved back from the end
DisplayWindowWitness ==
    /\ hist.last.op = "pointer"
    /\ Len(frame.words) > maxVisible
    /\ frame.selectedWordIndex = Len(frame.words) - 1
    /\ Window(frame) = [start |-> Len(frame.words) - maxVisible,
                        end |-> Len(frame.words)]

-----------------------------------------------------------------------------
(* Extension of the sentence *)

\* the step labelled l was the answer v to the predict call of an n-word
\* sentence, and it found (or left) the cursor at n
Extension(l, n, c) ==
    /\ l.op = "resolve" /\ l.request.kind = "predict"
    /\ HasVariations(l.response)
    /\ l.request.position = n /\ c = n

OneExtensionInFlight ==
    /\ Predicts(frame) <= 1
    /\ frame.isPredicting <=> Predicts(frame) = 1

\* C30 witness: the cursor left the end of the sentence and came back to it
\* while the predict call of its first visit is still the one in flight
OneExtensionInFlightWitness ==
    /\ hist.returned
    /\ AtSentinel(frame)
    /\ frame.isPredicting /\ Predicts(frame) = 1

-----------------------------------------------------------------------------
(* Reconnection of the page *)

\* C28: when the page's socket closes, arduinoConnected becomes false and a
\* call of connectWebSocket is scheduled; a failed creation schedules the
\* next call; and a closed socket is always followed by a new one.
ClientReconnects ==
    /\ [][/\ (socket.state # "closed" /\ socket'.state = "closed") =>
                 (~frame'.arduinoConnected /\ retryTimers' = retryTimers + 1)
          /\ hist'.last.op = "throw" => retryTimers' > 0]_vars
    /\ (socket.state = "closed") ~> (socket.state = "connecting")

\* C28 witness: the socket that replaced a closed one has closed in its turn
\* and, after a failed creation, the call of connectWebSocket is still scheduled
ClientReconnectsWitness ==
    /\ hist.reconnected
    /\ socket.state = "closed"
    /\ hist.last.op = "throw"
    /\ retryTimers > 0
    /\ ~frame.arduinoConnected

-----------------------------------------------------------------------------
(* The bridge *)

\* what the handling of a line carrying the pair (e1, e2) has to do
Published(e1, e2) ==
    IF currentData = [encoder1 |-> e1, encoder2 |-> e2]
    THEN currentData' = currentData /\ inbox' = inbox
    ELSE /\ currentData' = [encoder1 |-> e1, encoder2 |-> e2]
         /\ inbox' = IF relayConn = "open" THEN Append(inbox, Encoder(e1, e2))
                     ELSE inbox

SingleSerialHandle ==
    Cardinality({h \in 1..MaxHandles : Held(bridge.handles[h])}) <= 1

\* C24: a line that is not "E1:<integer>,E2:<integer>" leaves the current
\* pair and isConnected as they are and sends nothing to the viewer.
MalformedLineDiscarded ==
    [][(hist'.last.op = "line" /\ hist'.last.line \in BadLines) =>
         /\ currentData' = currentData
         /\ inbox' = inbox
         /\ bridge'.isConnected = bridge.isConnected]_vars

\* getConnectionStatus().connected
Connected(b) ==
    b.isConnected /\ b.port # null /\ b.handles[b.port].state = "open"

\* C25: the page shows "Arduino Connected" only while the bridge is connected
\* to the Arduino.
ConnectivityIndicator == frame.arduinoConnected => Connected(bridge)

\* C23: a call of connectToArduino is made only while the bridge is not
\* connected, and if the Arduino stays plugged in from some time on, the
\* bridge is connected and listening to its lines again and again.
BridgeReconnects ==
    /\ [][hist'.last.op = "attempt" => ~bridge.isConnected]_vars
    /\ <>[]device => []<>(Connected(bridge) /\ Listening)

-----------------------------------------------------------------------------
(* Late completions, consumption of the right dial's angle *)

\* C31: a predict call that completes when the cursor is no longer at the
\* sentinel changes neither currentVariations nor variationsFetchedForIndex.
LateExtensionGuard ==
    [][(/\ Completed("predict")
        /\ frame.selectedWordIndex < Len(frame.words))
       => /\ frame'.currentVariations = frame.currentVariations
          /\ frame'.variationsFetchedForIndex = frame.variationsFetchedForIndex]_vars

\* C32: a change of the right dial's angle by steps = floor(|angle -
\* lastRightRotationRef| / 60) > 0 advances lastRightRotationRef by exactly
\* steps * 60 in the direction of the change, clamped cursor or not, and
\* leaves less than 60 degrees unconsumed; a change with steps = 0 changes
\* neither the cursor nor lastRightRotationRef.
AngleConsumption ==
    [][(rightRotation(frame') # rightRotation(frame) /\ rightRotation(frame') # NaN)
       => LET change == rightRotation(frame') - frame.lastRightRotationRef
              steps == Abs(change) \div threshold
              direction == IF change > 0 THEN 1 ELSE -1
          IN  IF steps > 0
              THEN /\ frame'.lastRightRotationRef =
                        frame.lastRightRotationRef + steps * threshold * direction
                   /\ Abs(rightRotation(frame') - frame'.lastRightRotationRef)
                        < threshold
              ELSE /\ frame'.lastRightRotationRef = frame.lastRightRotationRef
                   /\ frame'.selectedWordIndex = frame.selectedWordIndex]_vars

\* C32 witness: a tick of JumpLimit detents of the right dial took the cursor
\* from the first word to the end, and all of its angle was consumed
AngleConsumptionWitness ==
    /\ hist.last.op = "message" /\ ~hist.last.sync
    /\ hist.last.d2 = JumpLimit
    /\ frame.selectedWordIndex = Len(frame.words)
    /\ frame.lastRightRotationRef = JumpLimit * DetentGain
    /\ JumpLimit * DetentGain > Len(frame.words) * threshold

\* C33: a forward change of the right dial by k >= 1 steps from cursor c with
\* c + k >= sentence.length sets the cursor to exactly sentence.length.
OvershootAtEnd ==
    [][LET change == rightRotation(frame') - frame.lastRightRotationRef
           k == Abs(change) \div threshold
       IN  (/\ rightRotation(frame') # rightRotation(frame)
            /\ rightRotation(frame') # NaN
            /\ change > 0 /\ k >= 1
            /\ frame.selectedWordIndex + k >= Len(frame.words))
           => frame'.selectedWordIndex = Len(frame.words)]_vars

\* C33 witness: the resync to a right dial at JumpLimit detents took the cursor
\* from the first word over more steps than the sentence has words, to the end
OvershootAtEndWitness ==
    /\ hist.last.op = "message" /\ hist.last.sync
    /\ hist.last.d2 * DetentGain > InitLen * threshold
    /\ frame.selectedWordIndex = InitLen
    /\ frame.words = INITIAL_SENTENCE
    /\ frame.isPredicting

-----------------------------------------------------------------------------
(* Variants after a cursor change, fetches in flight *)

\* the step just taken issued a variant fetch for the word at position c
FetchIssued(c) ==
    /\ Len(frame'.pending) >= 1
    /\ frame'.pending[Len(frame'.pending)] =
         [kind |-> "variant", word |-> At(frame.words, c),
          context |-> join(frame.words), position |-> c]
    /\ Len(frame'.pending) > Len(frame.pending)

\* C34: every step that changes the cursor to a position c < sentence.length
\* leaves currentVariations = [word at c] and variationsFetchedForIndex
\* cleared; the first change of the left dial's angle after the pointer moved
\* the cursor to c, the cursor still at c, issues a variant fetch for c and
\* leaves the sentence as it is.
CursorChangeResets ==
    [][/\ (/\ frame'.selectedWordIndex # frame.selectedWordIndex
           /\ frame'.selectedWordIndex < Len(frame'.words))
          => /\ frame'.currentVariations =
                  <<At(frame'.words, frame'.selectedWordIndex)>>
             /\ frame'.variationsFetchedForIndex = null
       /\ (/\ hist.untouched
           /\ rotation(frame') # rotation(frame)
           /\ frame'.selectedWordIndex = frame.selectedWordIndex)
          => /\ FetchIssued(frame.selectedWordIndex)
             /\ frame'.words = frame.words]_vars

-----------------------------------------------------------------------------
(* Baselines, sentence length *)

\* C35: each dial's encoder contribution is 3.6 times the counter recorded as
\* that dial's baseline, in every state; so for every tick the absolute
\* branch (3.6 * counter) and the incremental branch (contribution + 3.6 *
\* delta) give the same contribution.
BaselineInvariant ==
    /\ [](/\ frame.encoderRotation = frame.lastEncoder1Ref * DetentGain
          /\ frame.rightEncoderRotation = frame.lastEncoder2Ref * DetentGain)
    /\ [][(Handled /\ ~hist'.last.sync) =>
            LET data == Head(inbox).data
            IN  /\ data.encoder1 * DetentGain =
                     frame.encoderRotation
                       + (data.encoder1 - frame.lastEncoder1Ref) * DetentGain
                /\ data.encoder2 * DetentGain =
                     frame.rightEncoderRotation
                       + (data.encoder2 - frame.lastEncoder2Ref) * DetentGain
                /\ frame'.encoderRotation = data.encoder1 * DetentGain
                /\ frame'.rightEncoderRotation = data.encoder2 * DetentGain]_vars

\* C35 witness: the right dial jumped by more than JumpLimit detents in a tick
\* and went back by as much in the next
BaselineInvariantWitness ==
    /\ hist.last.op = "message" /\ ~hist.last.sync
    /\ hist.last.d2 = -(JumpLimit + 1)
    /\ hist.handled = 2
    /\ frame.lastEncoder2Ref = 0
    /\ frame.rightEncoderRotation = 0

\* C36: the sentence never gets shorter, and it gets longer only in the step
\* in which a predict call completes with a non-empty list, by exactly one
\* word; no pointer event, variant fetch completion or relay message changes
\* its length.
SentenceGrowth ==
    [][/\ Len(frame'.words) >= Len(frame.words)
       /\ Len(frame'.words) # Len(frame.words)
            => /\ Completed("predict")
               /\ HasVariations(hist'.last.response)
               /\ Len(frame'.words) = Len(frame.words) + 1]_vars

\* the variant fetches in flight that were issued for position c
InFlight(f, c) ==
    {i \in 1..Len(f.pending) :
        f.pending[i].kind = "variant" /\ f.pending[i].position = c}

\* C37: while a variant fetch for the cursor's position is in flight, a change
\* of the left dial's angle issues no further fetch for that position; at
\* most one variant fetch for the cursor's position is in flight.
SingleVariantFetch ==
    /\ [](Cardinality(InFlight(frame, frame.selectedWordIndex)) <= 1)
    /\ [][(/\ InFlight(frame, frame.selectedWordIndex) # {}
           /\ rotation(frame') # rotation(frame)
           /\ frame'.selectedWordIndex = frame.selectedWordIndex)
          => Cardinality(InFlight(frame', frame.selectedWordIndex))
               <= Cardinality(InFlight(frame, frame.selectedWordIndex))]_vars

-----------------------------------------------------------------------------
(* The relay socket of the page *)

\* C38: once the component is unmounted and its cleanup has closed the relay
\* socket, no step gives the component a new connecting socket.
TeardownStopsReconnection ==
    [][~frame.mounted =>
         (socket'.state = "connecting" => socket.state = "connecting")]_vars

\* C39: a reconnect timer is pending only while the page's socket is closed,
\* and never more than one; a socket is created only when the one before it
\* is closed and nothing sent on its connection is left, so the page never
\* has two sockets that are connecting or open, and what it handles was sent
\* on the connection of the socket that is open.
SingleRelayConnection ==
    /\ [](/\ retryTimers <= 1
          /\ retryTimers > 0 => socket.state = "closed")
    /\ [][/\ retryTimers' < retryTimers
               => /\ socket.state = "closed" /\ socket' = NewSocket
                  /\ relayConn = "none" /\ inbox = <<>>
          /\ (socket.state # "connecting" /\ socket'.state = "connecting")
               => retryTimers' < retryTimers
          /\ Handled => socket.state = "open" /\ relayConn # "none"]_vars

\* C39 witness: the socket made by the retry timer is open, resynced and has
\* handled a tick of the left dial; no timer is pending
SingleRelayConnectionWitness ==
    /\ hist.reconnected
    /\ socket.state = "open" /\ ~socket.needsSync
    /\ hist.last.op = "message" /\ ~hist.last.sync
    /\ hist.last.d1 # 0
    /\ retryTimers = 0


-----------------------------------------------------------------------------
(* The two dials *)

\* what the right dial owns: its contributions, its baseline, the angle it
\* has consumed and the cursor
OfRightDial(f) ==
    <<f.rightMouseRotation, f.rightEncoderRotation, f.lastEncoder2Ref,
      f.lastRightRotationRef, f.selectedWordIndex>>

\* what the left dial owns: its contributions, its baseline and the words
OfLeftDial(f) ==
    <<f.mouseRotation, f.encoderRotation, f.lastEncoder1Ref, f.words>>

\* C40: a message handled after the resync in which only counter 1 differs
\* from its baseline leaves the right dial's contributions, the consumed angle
\* and the cursor as they were; one in which only counter 2 differs leaves the
\* left dial's contributions and every word of the sentence as they were; and
\* a pointer event of a drag on one dial leaves everything the other dial owns
\* as it was.
DialIndependence ==
    [][/\ (Handled /\ ~hist'.last.sync
             /\ hist'.last.d1 # 0 /\ hist'.last.d2 = 0)
          => OfRightDial(frame') = OfRightDial(frame)
       /\ (Handled /\ ~hist'.last.sync
             /\ hist'.last.d1 = 0 /\ hist'.last.d2 # 0)
          => OfLeftDial(frame') = OfLeftDial(frame)
       /\ (hist'.last.op = "pointer" /\ (frame.isDragging \/ frame'.isDragging))
          => /\ OfRightDial(frame') = OfRightDial(frame)
             /\ frame'.lastRightAngleRef = frame.lastRightAngleRef
             /\ frame'.isRightDragging = frame.isRightDragging
       /\ (hist'.last.op = "pointer"
             /\ (frame.isRightDragging \/ frame'.isRightDragging))
          => /\ OfLeftDial(frame') = OfLeftDial(frame)
             /\ frame'.lastAngleRef = frame.lastAngleRef
             /\ frame'.isDragging = frame.isDragging]_vars

\* C40 witness: the device turned the right dial alone, the cursor went to the
\* end of the sentence, and nothing of the left dial moved
DialIndependenceWitness ==
    /\ hist.last.op = "message" /\ ~hist.last.sync
    /\ hist.last.d1 = 0 /\ hist.last.d2 = JumpLimit
    /\ frame.selectedWordIndex = Len(frame.words)
    /\ frame.encoderRotation = 0 /\ frame.mouseRotation = 0
    /\ frame.words = INITIAL_SENTENCE

====
